---- MODULE Spec2Model ----
(***************************************************************************)
(* Model of the LLM quiz-analysis service: the /quiz request handler       *)
(* (main.py), the chain orchestrator QuizAgent.solve_quiz_chain and the    *)
(* hop solver solve_single_quiz (quiz_agent.py), and the capabilities the  *)
(* reasoning agent may invoke during a hop (quiz_llm_tools.py).            *)
(*                                                                         *)
(* Time is counted in whole minutes: datetime.now() is the variable now,   *)
(* timedelta(minutes=3) is quiz_timeout = 3.                               *)
(*                                                                         *)
(* Exceptions carry their Python class: "Exception" is caught by the       *)
(* `except Exception` clauses of the source, "BaseException" stands for    *)
(* SystemExit / KeyboardInterrupt / GeneratorExit, which those clauses do  *)
(* not catch.                                                              *)
(***************************************************************************)
EXTENDS Integers, Sequences, FiniteSets, TLC

\* ---------------------------------------------------------------- bounds
MaxRequests == 1      \* requests received by the endpoint in one run
MaxNow == 4           \* last minute of the modelled clock
MaxToolCalls == 1     \* capability calls the agent makes in one chain run

\* ------------------------------------------------------ program constants
quiz_timeout == 3
max_quizzes == 20
PayloadLimit == 1000000
\* bytes json.dumps adds around the four values of the payload:
\* {"email": , "secret": , "url": , "answer": }
PayloadOverhead == 44

\* ------------------------------------------------------------ input sets
Emails == {"me", "x"}
Secrets == {"s1", "bad"}
StartUrls == {"", "u1"}
NextUrls == {"", "u2"}
AnswerSizes == {4, 999943, 999944, 999945}
JsonKinds == {"malformed", "non_object", "object"}
Unbound == -1

Runs == 1..MaxRequests

VARIABLES EXPECTED_SECRET, STUDENT_EMAIL, quiz_agent, now, nreq, request,
          response, warned, chain, call, downloads, worker

config == <<EXPECTED_SECRET, STUDENT_EMAIL>>
files == <<downloads, worker>>
vars == <<EXPECTED_SECRET, STUDENT_EMAIL, quiz_agent, now, nreq, request,
          response, warned, chain, call, downloads,
         worker>>

NoRequest == [email |-> "", secret |-> "", url |-> ""]
NoResponse == [status |-> "none", message |-> "", started_at |-> Unbound,
               email |-> ""]
\* The dict solve_single_quiz returns: its "success", the key its text is
\* stored under and the text; `outcome` is how agent.invoke ended.
NoHop == [outcome |-> "none", success |-> FALSE, key |-> "none",
          text |-> "none"]
NoChain == [pc |-> "none", start_url |-> "", start_time |-> Unbound,
            current_url |-> "", quiz_count |-> 0, elapsed |-> Unbound,
            result |-> "none", hops |-> <<>>, has_resp |-> FALSE,
            resp_url |-> "", tool_calls |-> 0, exit |-> "none",
            logged_error |-> FALSE, in_flight |-> 0, hop |-> NoHop]
NoCall == [tool |-> "none", input |-> <<>>, text |-> "none",
           failed |-> FALSE, raised |-> FALSE, size |-> 0, posted |-> FALSE,
           dest |-> "", next |-> ""]

\* ---------------------------------------------------------------------
\* download_file_tool against the file system.  Every chain run calls the
\* tool on an executor thread of the one server process, so all runs share
\* os.getcwd()/downloads.  A URL is the sequence of its pieces around the
\* separators "/" and "?"; the bytes a run fetches are tagged with the run.
MaxChains == 2         \* chain runs that download at the same time
Workers == 1..MaxChains

DownloadUrls == {<<"h1", "/", "data.csv">>,
                 <<"h2", "/", "files", "/", "data.csv", "?", "v=1">>,
                 <<"h2", "/", "notes.txt">>}
Dispositions == {"", "report.pdf"}
FileNames == {"data.csv", "notes.txt", "report.pdf"}
NoBytes == 0

\* str.split(sep)[-1]: what follows the last separator
RECURSIVE AfterLast(_, _)
AfterLast(str, sep) ==
    IF \A i \in 1..Len(str) : str[i] # sep THEN str
    ELSE AfterLast(Tail(str), sep)

\* str.split(sep)[0]: what precedes the first separator
RECURSIVE BeforeFirst(_, _)
BeforeFirst(str, sep) ==
    IF str = <<>> \/ Head(str) = sep THEN <<>>
    ELSE <<Head(str)>> \o BeforeFirst(Tail(str), sep)

Joined(str) == IF str = <<>> THEN "" ELSE Head(str)

\* filename = url.split('/')[-1].split('?')[0], or the Content-Disposition
\* filename; file_path = os.path.join(os.getcwd(), 'downloads', filename)
FilePath(url, disposition) ==
    IF disposition # "" THEN disposition
    ELSE Joined(BeforeFirst(AfterLast(url, "/"), "?"))

NoDownload == [pc |-> "idle", file_path |-> "", content |-> NoBytes,
               returned |-> ""]

Init ==
    /\ EXPECTED_SECRET = "s1"
    /\ STUDENT_EMAIL = "me"
    /\ quiz_agent = "unset"
    /\ now = 0
    /\ nreq = 0
    /\ request = [r \in Runs |-> NoRequest]
    /\ response = [r \in Runs |-> NoResponse]
    /\ warned = {}
    /\ chain = [r \in Runs |-> NoChain]
    /\ call = NoCall
    /\ downloads = [f \in FileNames |-> NoBytes]
    /\ worker = [w \in Workers |-> NoDownload]

\* startup_event: QuizAgent() is constructed, or its construction raises and
\* the global stays None.
Startup ==
    /\ quiz_agent = "unset"
    /\ quiz_agent' \in {"ready", "None"}
    /\ UNCHANGED <<config, files, now, nreq, request, response, warned, chain,
                 call>>

\* The wall clock.
Tick ==
    /\ now < MaxNow
    /\ now' = now + 1
    /\ UNCHANGED <<config, files, quiz_agent, nreq, request, response, warned,
                   chain, call>>

\* ------------------------------------------------------------ main.py
Accepted(email) ==
    [status |-> "accepted", message |-> "Quiz solving process started",
     started_at |-> now, email |-> email]

Rejected(code) ==
    [status |-> code, message |-> "", started_at |-> Unbound, email |-> ""]

\* asyncio.create_task(quiz_agent.solve_quiz_chain(...)): the coroutine is
\* scheduled, none of its statements has run yet.
CreateTask(url) == [NoChain EXCEPT !.pc = "scheduled", !.start_url = url]

\* A handler that awaits the chain before answering: the chain has run to
\* its end when the response is built, and a chain failure becomes a 500.
HandleQuiz_Awaits(email, secret, url) ==
    /\ nreq < MaxRequests
    /\ nreq' = nreq + 1
    /\ request' = [request EXCEPT ![nreq + 1] =
                      [email |-> email, secret |-> secret, url |-> url]]
    /\ IF secret # EXPECTED_SECRET
       THEN /\ response' = [response EXCEPT ![nreq + 1] = Rejected("403")]
            /\ UNCHANGED <<warned, chain>>
       ELSE /\ warned' = IF STUDENT_EMAIL # "" /\ email # STUDENT_EMAIL
                         THEN warned \cup {nreq + 1} ELSE warned
            /\ IF quiz_agent # "ready"
               THEN /\ response' = [response EXCEPT ![nreq + 1] = Rejected("500")]
                    /\ UNCHANGED chain
               ELSE \E ok \in BOOLEAN :
                    /\ chain' = [chain EXCEPT ![nreq + 1] =
                                   [CreateTask(url) EXCEPT
                                        !.pc = IF ok THEN "done" ELSE "raised"]]
                    /\ response' = [response EXCEPT ![nreq + 1] =
                                      IF ok THEN Accepted(email)
                                      ELSE Rejected("500")]
    /\ UNCHANGED <<config, files, quiz_agent, now, call>>

\* A handler that treats an email mismatch like a secret mismatch.
HandleQuiz_RejectEmail(email, secret, url) ==
    /\ nreq < MaxRequests
    /\ nreq' = nreq + 1
    /\ request' = [request EXCEPT ![nreq + 1] =
                      [email |-> email, secret |-> secret, url |-> url]]
    /\ IF secret # EXPECTED_SECRET
       THEN /\ response' = [response EXCEPT ![nreq + 1] = Rejected("403")]
            /\ UNCHANGED <<warned, chain>>
       ELSE IF STUDENT_EMAIL # "" /\ email # STUDENT_EMAIL
       THEN /\ warned' = warned \cup {nreq + 1}
            /\ response' = [response EXCEPT ![nreq + 1] = Rejected("403")]
            /\ UNCHANGED chain
       ELSE IF quiz_agent # "ready"
       THEN /\ response' = [response EXCEPT ![nreq + 1] = Rejected("500")]
            /\ UNCHANGED <<warned, chain>>
       ELSE /\ chain' = [chain EXCEPT ![nreq + 1] = CreateTask(url)]
            /\ response' = [response EXCEPT ![nreq + 1] = Accepted(email)]
            /\ UNCHANGED warned
    /\ UNCHANGED <<config, files, quiz_agent, now, call>>

\* handle_quiz(request): one run of the handler, which has no suspension
\* point.  The field validators of QuizRequest are not registered (the
\* classmethod decorator wraps the validator proxy), so any strings arrive.
HandleQuiz(email, secret, url) ==
    /\ nreq < MaxRequests
    /\ nreq' = nreq + 1
    /\ request' = [request EXCEPT ![nreq + 1] =
                      [email |-> email, secret |-> secret, url |-> url]]
    /\ IF secret # EXPECTED_SECRET
       THEN \* HTTPException(403), re-raised by `except HTTPException`
            /\ response' = [response EXCEPT ![nreq + 1] = Rejected("403")]
            /\ UNCHANGED <<warned, chain>>
       ELSE /\ warned' = IF STUDENT_EMAIL # "" /\ email # STUDENT_EMAIL
                         THEN warned \cup {nreq + 1} ELSE warned
            /\ IF quiz_agent # "ready"
               THEN /\ response' = [response EXCEPT ![nreq + 1] = Rejected("500")]
                    /\ UNCHANGED chain
               ELSE /\ chain' = [chain EXCEPT ![nreq + 1] = CreateTask(url)]
                    /\ response' = [response EXCEPT ![nreq + 1] = Accepted(email)]
    /\ UNCHANGED <<config, files, quiz_agent, now, call>>

\* ------------------------------------------- quiz_llm_tools.py: tools
\* One invocation of a tool: the argument the agent passes and what the
\* world does during the call.
\*   json         shape of a JSON string argument
\*   submit_url, email, secret, url, answer_bytes
\*                fields of the submission ("" = missing or empty;
\*                answer_bytes = len(json.dumps(answer)))
\*   data, op     fields of the analysis / chart argument
\*   avail        PLAYWRIGHT_AVAILABLE resp. MATPLOTLIB_AVAILABLE
\*   env          what the I/O or evaluation inside the body does: "ok",
\*                "Exception", "BaseException", and for a POST also
\*                "bad_json" (response.json() raises: the body is no JSON)
\*                and "non_object" (the body is JSON but no object)
\*   status       the HTTP status of the submission response
\*   next         the `url` field of the submission response ("" = absent)
NoInput == [json |-> "object", submit_url |-> "sub", email |-> "me",
            secret |-> "s1", url |-> "u1", answer_bytes |-> 4,
            data |-> "table", op |-> "known", avail |-> TRUE,
            env |-> "ok", status |-> 200, next |-> ""]

\* The outcome of a tool body run under `try: ... except Exception as e:
\* return f"Error ...: {e}"`.  body is "ok", "error_return" (an explicit
\* `return "Error: ..."`), "Exception" or "BaseException".
Call(tool, a, body) ==
    [NoCall EXCEPT !.tool = tool, !.input = a,
                   !.text = IF body = "ok" THEN "ok"
                            ELSE IF body = "BaseException" THEN "none"
                            ELSE "Error",
                   !.failed = (body # "ok"),
                   !.raised = (body = "BaseException")]

\* What json.loads(arg) followed by params.get(...) does to the argument:
\* JSONDecodeError for malformed JSON, AttributeError for JSON that is no
\* object.
ParseArgs(json) ==
    IF json = "object" THEN "ok" ELSE "Exception"

\* fetch_webpage_tool(url); env is what httpx.get / raise_for_status do.
fetch_webpage_tool(a) == Call("fetch", a, a.env)

\* scrape_with_javascript_tool(url)
scrape_with_javascript_tool(a) ==
    IF ~a.avail THEN Call("render", a, "error_return")
    ELSE Call("render", a, a.env)

\* download_file_tool(url)
download_file_tool(a) == Call("download", a, a.env)

\* extract_data_from_pdf_tool(file_path); env is what PdfReader does.
extract_data_from_pdf_tool(a) == Call("extract_pdf", a, a.env)

\* analyze_data_tool(data_description).  data is "non_string" (a number or
\* a list under 'data'), "unparseable" (the pandas reader raises), "empty"
\* (df is None or empty) or "table"; op is "known", "raises" (the operation
\* raises, e.g. an unknown column) or "other" (the final else branch).
analyze_data_tool(a) ==
    IF ParseArgs(a.json) # "ok" THEN Call("analyze", a, "Exception")
    ELSE IF a.data \in {"non_string", "unparseable"}
    THEN Call("analyze", a, "Exception")
    ELSE IF a.data = "empty" THEN Call("analyze", a, "error_return")
    ELSE IF a.op = "raises" THEN Call("analyze", a, "Exception")
    ELSE Call("analyze", a, "ok")

\* execute_calculation_tool(expression); env is what eval(expression, ...)
\* does.  An expression reaches every class through
\* ().__class__.__base__.__subclasses__(), so eval can raise SystemExit.
execute_calculation_tool(a) == Call("calculate", a, a.env)

\* create_visualization_tool(viz_params)
create_visualization_tool(a) ==
    IF ~a.avail THEN Call("visualize", a, "error_return")
    ELSE IF ParseArgs(a.json) # "ok" THEN Call("visualize", a, "Exception")
    ELSE IF a.data # "table" THEN Call("visualize", a, "Exception")
    ELSE Call("visualize", a, "ok")

\* len(json.dumps(s)) for an ASCII string without escapes
DumpsLen(str) == Len(str) + 2

\* len(json.dumps({"email":..,"secret":..,"url":..,"answer":..}).encode())
PayloadSize(a) ==
    PayloadOverhead + DumpsLen(a.email) + DumpsLen(a.secret)
        + DumpsLen(a.url) + a.answer_bytes

ExceedsLimit_Inclusive(payload_size) == payload_size >= PayloadLimit

\* if payload_size > 1_000_000
ExceedsLimit(payload_size) == payload_size > PayloadLimit

\* A tool that keeps the destination of the last POST and uses it again.
Destination_Remembered(a) == IF call.dest # "" THEN call.dest ELSE a.submit_url

\* httpx.post(submit_url, json=payload, timeout=30.0)
Destination(a) == a.submit_url

\* submit_answer_tool(submission_data).  The status of the response is never
\* read: there is no raise_for_status() between the POST and response.json().
submit_answer_tool(a) ==
    IF ParseArgs(a.json) # "ok" THEN Call("submit", a, "Exception")
    ELSE IF a.submit_url = "" \/ a.email = "" \/ a.secret = "" \/ a.url = ""
    THEN Call("submit", a, "error_return")
    ELSE IF ExceedsLimit(PayloadSize(a))
    THEN [Call("submit", a, "error_return") EXCEPT !.size = PayloadSize(a)]
    ELSE IF a.env # "ok"
    THEN \* httpx.post or response.json() raises, or response_data.get does
         [Call("submit", a, "Exception") EXCEPT !.size = PayloadSize(a),
                                                 !.posted = TRUE,
                                                 !.dest = Destination(a)]
    ELSE [Call("submit", a, "ok") EXCEPT !.size = PayloadSize(a),
                                          !.posted = TRUE,
                                          !.dest = Destination(a),
                                          !.text = "Submission",
                                          !.next = a.next]

\* ------------------------------------------------- the agent's choices
IoInputs == {[NoInput EXCEPT !.env = e] : e \in {"ok", "Exception"}}

RenderInputs == {[a EXCEPT !.avail = v] : a \in IoInputs, v \in BOOLEAN}

AnalyzeInputs ==
    {[NoInput EXCEPT !.json = j, !.data = d, !.op = o] :
        j \in JsonKinds,
        d \in {"non_string", "unparseable", "empty", "table"},
        o \in {"known", "raises", "other"}}

CalculateInputs ==
    {[NoInput EXCEPT !.env = e] : e \in {"ok", "Exception", "BaseException"}}

VisualizeInputs ==
    {[NoInput EXCEPT !.json = j, !.data = d, !.avail = v] :
        j \in JsonKinds, d \in {"unparseable", "table"}, v \in BOOLEAN}

SubmitArgs ==
    {[NoInput EXCEPT !.json = j] : j \in JsonKinds}
    \cup {[NoInput EXCEPT !.submit_url = ""], [NoInput EXCEPT !.email = ""],
          [NoInput EXCEPT !.secret = ""], [NoInput EXCEPT !.url = ""],
          [NoInput EXCEPT !.submit_url = "sub2"]}
    \cup {[NoInput EXCEPT !.answer_bytes = n] : n \in AnswerSizes}

StatusCodes == {200, 500}

SubmitInputs ==
    {[a EXCEPT !.env = e] :
        a \in SubmitArgs, e \in {"Exception", "bad_json", "non_object"}}
    \cup {[a EXCEPT !.next = u, !.status = st] :
            a \in SubmitArgs, u \in NextUrls, st \in StatusCodes}

\* Every result a tool invocation of the agent can have.
ToolResults ==
    {fetch_webpage_tool(a) : a \in IoInputs}
    \cup {scrape_with_javascript_tool(a) : a \in RenderInputs}
    \cup {download_file_tool(a) : a \in IoInputs}
    \cup {extract_data_from_pdf_tool(a) : a \in IoInputs}
    \cup {analyze_data_tool(a) : a \in AnalyzeInputs}
    \cup {execute_calculation_tool(a) : a \in CalculateInputs}
    \cup {create_visualization_tool(a) : a \in VisualizeInputs}
    \cup {submit_answer_tool(a) : a \in SubmitInputs}

\* ------------------------------------------- quiz_agent.py: the chain
\* The steps of solve_quiz_chain are operators on the record of one run;
\* c.pc is the statement the coroutine executes next.  The coroutine only
\* suspends at `await self.solve_single_quiz(...)`, so an action runs the
\* steps from one suspension to the next; the clock is read by the body
\* step, and it may have advanced since start_time was taken.

\* start_time = datetime.now(); current_url = start_url; quiz_count = 0
Begin(c, t) ==
    [c EXCEPT !.pc = "while", !.start_time = t,
              !.current_url = c.start_url, !.quiz_count = 0]

\* while current_url and quiz_count < max_quizzes:
WhileCond(c) == c.current_url # "" /\ c.quiz_count < max_quizzes

WhileTest(c) ==
    IF c.pc # "while" THEN c
    ELSE IF WhileCond(c) THEN [c EXCEPT !.pc = "body"]
    ELSE [c EXCEPT !.pc = "log",
                   !.exit = IF c.current_url = "" THEN "no_url" ELSE "ceiling"]

\* A loop body without the time check.
LoopBody_NoTimeCheck(c, t) ==
    IF c.pc # "body" THEN c
    ELSE [c EXCEPT !.quiz_count = c.quiz_count + 1,
                   !.elapsed = t - c.start_time,
                   !.pc = "solving",
                   !.hops = Append(c.hops, c.current_url),
                   !.in_flight = c.in_flight + 1, !.hop = NoHop,
                   !.has_resp = FALSE, !.resp_url = "", !.result = "none"]

\* A loop body that starts solve_single_quiz without awaiting it and goes
\* on to the next turn.
LoopBody_NoAwait(c, t) ==
    IF c.pc # "body" THEN c
    ELSE IF t - c.start_time > quiz_timeout
    THEN [c EXCEPT !.quiz_count = c.quiz_count + 1,
                   !.elapsed = t - c.start_time,
                   !.pc = "log", !.exit = "timeout"]
    ELSE [c EXCEPT !.quiz_count = c.quiz_count + 1,
                   !.elapsed = t - c.start_time,
                   !.pc = IF c.quiz_count + 1 < max_quizzes THEN "body"
                          ELSE "log",
                   !.hops = Append(c.hops, c.current_url),
                   !.in_flight = c.in_flight + 1, !.hop = NoHop,
                   !.has_resp = FALSE, !.resp_url = "", !.result = "none"]

\* quiz_count += 1; elapsed = datetime.now() - start_time; break when
\* elapsed > self.quiz_timeout, else call solve_single_quiz(current_url).
LoopBody(c, t) ==
    IF c.pc # "body" THEN c
    ELSE IF t - c.start_time > quiz_timeout
    THEN [c EXCEPT !.quiz_count = c.quiz_count + 1,
                   !.elapsed = t - c.start_time,
                   !.pc = "log", !.exit = "timeout"]
    ELSE [c EXCEPT !.quiz_count = c.quiz_count + 1,
                   !.elapsed = t - c.start_time,
                   !.pc = "solving",
                   !.hops = Append(c.hops, c.current_url),
                   !.in_flight = c.in_flight + 1, !.hop = NoHop,
                   !.has_resp = FALSE, !.resp_url = "", !.result = "none"]

\* How agent.invoke ends when no BaseException leaves it: "terminal" (it
\* returns the messages, the last one being the agent's final text),
\* "ceiling" (the agent graph reaches its step limit and raises its
\* recursion error, an Exception) or "Exception" (any other Exception).
InvokeOutcomes == {"terminal", "ceiling", "Exception"}

\* str(e) of the exception agent.invoke raised
ErrorText(outcome) ==
    IF outcome = "ceiling" THEN "Recursion limit reached" ELSE "str(e)"

\* A solver whose except clause reports the hop as solved.
solve_single_quiz_ReportsSuccess(outcome) ==
    IF outcome = "terminal"
    THEN [outcome |-> outcome, success |-> TRUE, key |-> "result",
          text |-> "output_text"]
    ELSE [outcome |-> outcome, success |-> TRUE, key |-> "result",
          text |-> ErrorText(outcome)]

\* solve_single_quiz: {"success": True, "result": output_text, "url": ...}
\* when agent.invoke returned, {"success": False, "error": str(e), "url":
\* ...} when it raised an Exception.
solve_single_quiz(outcome) ==
    IF outcome = "terminal"
    THEN [outcome |-> outcome, success |-> TRUE, key |-> "result",
          text |-> "output_text"]
    ELSE [outcome |-> outcome, success |-> FALSE, key |-> "error",
          text |-> ErrorText(outcome)]

\* result = await self.solve_single_quiz(...) is resumed with the dict
Returned(c, outcome) ==
    [c EXCEPT !.pc = "after",
              !.hop = solve_single_quiz(outcome),
              !.in_flight = c.in_flight - 1,
              !.result = IF solve_single_quiz(outcome).success
                         THEN "success" ELSE "failure"]

\* The loop without its last statement: after a successful hop the while
\* condition is tested again, current_url being what it was.
AfterHop_NoFinalBreak(c) ==
    IF c.pc # "after" THEN c
    ELSE IF c.result # "success" THEN [c EXCEPT !.pc = "log", !.exit = "failure"]
    ELSE [c EXCEPT !.pc = "while"]

\* A loop that tests its condition again after a failed hop.
AfterHop_RetryOnFailure(c) ==
    IF c.pc # "after" THEN c
    ELSE IF c.result # "success" THEN [c EXCEPT !.pc = "while"]
    ELSE [c EXCEPT !.pc = "log", !.exit = "break"]

\* A loop that runs its body again after a successful hop without testing
\* its condition.
AfterHop_NoCeiling(c) ==
    IF c.pc # "after" THEN c
    ELSE IF c.result # "success" THEN [c EXCEPT !.pc = "log", !.exit = "failure"]
    ELSE [c EXCEPT !.pc = "body"]

\* A loop that goes on with the url of the submission response.
AfterHop_FollowsUrl(c) ==
    IF c.pc # "after" THEN c
    ELSE IF c.result # "success" THEN [c EXCEPT !.pc = "log", !.exit = "failure"]
    ELSE [c EXCEPT !.pc = "while", !.current_url = c.resp_url]

\* if not result.get("success"): break
\* break  # For now, break after one quiz; the agent handles chaining
AfterHop(c) ==
    IF c.pc # "after" THEN c
    ELSE IF c.result # "success" THEN [c EXCEPT !.pc = "log", !.exit = "failure"]
    ELSE [c EXCEPT !.pc = "log", !.exit = "break"]

\* logger.info(f"... Solved {quiz_count} quizzes in {elapsed}"): reading an
\* unbound elapsed raises UnboundLocalError, which `except Exception` logs.
\* The coroutine returns and its locals are gone; quiz_count stays as the
\* number the log line reported.
CompletionLog(c) ==
    IF c.pc # "log" THEN c
    ELSE [c EXCEPT !.pc = "done",
                   !.logged_error = (c.elapsed = Unbound),
                   !.start_time = Unbound, !.current_url = "",
                   !.elapsed = Unbound]

\* A BaseException leaving agent.invoke passes the `except Exception` of
\* solve_single_quiz and the one of solve_quiz_chain: the coroutine raises.
Propagate(c) ==
    IF c.pc # "unwinding" THEN c
    ELSE [c EXCEPT !.pc = "raised", !.exit = "raised",
                   !.in_flight = c.in_flight - 1,
                   !.start_time = Unbound, !.current_url = "",
                   !.elapsed = Unbound]

ChainVarsUnchanged ==
    UNCHANGED <<config, files, quiz_agent, now, nreq, request, response, warned,
                call>>

\* The task starts: lines 268-276.
ChainStart(r) ==
    /\ chain[r].pc = "scheduled"
    /\ chain' = [chain EXCEPT ![r] =
                    CompletionLog(WhileTest(Begin(chain[r], now)))]
    /\ ChainVarsUnchanged

\* One turn of the loop up to the await: lines 277-292.
HopBegin(r) ==
    /\ chain[r].pc = "body"
    /\ chain' = [chain EXCEPT ![r] = CompletionLog(LoopBody(chain[r], now))]
    /\ ChainVarsUnchanged

\* The await is resumed with the hop's result: lines 294-302.
HopEnd(r, outcome) ==
    /\ chain[r].pc = "solving"
    /\ chain' = [chain EXCEPT ![r] =
                    CompletionLog(WhileTest(AfterHop(Returned(chain[r], outcome))))]
    /\ ChainVarsUnchanged

HopReturn(r) == HopEnd(r, "terminal")

HopException(r) == \E outcome \in InvokeOutcomes \ {"terminal"} : HopEnd(r, outcome)

\* What the hop can observe of a tool result.
ToolEffects ==
    {[raised |-> res.raised, text |-> res.text, next |-> res.next] :
        res \in ToolResults}

\* What a tool result does to the hop it is invoked in: a tool that raises
\* ends agent.invoke with that exception; a submission outcome is what the
\* agent knows of the next quiz.
Observe(c, res) ==
    [c EXCEPT !.tool_calls = c.tool_calls + 1,
              !.pc = IF res.raised THEN "unwinding" ELSE "solving",
              !.has_resp = IF res.text = "Submission" THEN TRUE ELSE c.has_resp,
              !.resp_url = IF res.text = "Submission" THEN res.next
                           ELSE c.resp_url]

\* The agent, inside agent.invoke of run r, invokes a tool.
AgentCalls(r) ==
    /\ chain[r].pc = "solving"
    /\ chain[r].tool_calls < MaxToolCalls
    /\ \E res \in ToolEffects :
          chain' = [chain EXCEPT ![r] = Propagate(Observe(chain[r], res))]
    /\ ChainVarsUnchanged

\* ------------------------------------------- the tools taken alone
Invoke(res) ==
    /\ call' = res
    /\ UNCHANGED <<config, files, quiz_agent, now, nreq, request, response, warned,
                   chain>>

Fetch == \E a \in IoInputs : Invoke(fetch_webpage_tool(a))
Render == \E a \in RenderInputs : Invoke(scrape_with_javascript_tool(a))
Download == \E a \in IoInputs : Invoke(download_file_tool(a))
ExtractPdf == \E a \in IoInputs : Invoke(extract_data_from_pdf_tool(a))
Analyze == \E a \in AnalyzeInputs : Invoke(analyze_data_tool(a))
Calculate == \E a \in CalculateInputs : Invoke(execute_calculation_tool(a))
Visualize == \E a \in VisualizeInputs : Invoke(create_visualization_tool(a))
Submit == \E a \in SubmitInputs : Invoke(submit_answer_tool(a))

NextTools ==
    \/ Fetch
    \/ Render
    \/ Download
    \/ ExtractPdf
    \/ Analyze
    \/ Calculate
    \/ Visualize
    \/ Submit

SpecTools == Init /\ [][NextTools]_vars

\* httpx.get(url) and raise_for_status() succeed; the file name is derived
DownloadGet(w) ==
    /\ worker[w].pc = "idle"
    /\ \E url \in DownloadUrls, disposition \in Dispositions :
          worker' = [worker EXCEPT ![w] =
                        [pc |-> "fetched",
                         file_path |-> FilePath(url, disposition),
                         content |-> w, returned |-> ""]]
    /\ UNCHANGED <<config, quiz_agent, now, nreq, request, response, warned,
                   chain, call, downloads>>

\* httpx.get or raise_for_status() raises; the tool returns the error text
DownloadError(w) ==
    /\ worker[w].pc = "idle"
    /\ worker' = [worker EXCEPT ![w].pc = "done", ![w].returned = "Error"]
    /\ UNCHANGED <<config, quiz_agent, now, nreq, request, response, warned,
                   chain, call, downloads>>

\* open(file_path, 'wb') creates or truncates the file
DownloadOpen(w) ==
    /\ worker[w].pc = "fetched"
    /\ downloads' = [downloads EXCEPT ![worker[w].file_path] = NoBytes]
    /\ worker' = [worker EXCEPT ![w].pc = "opened"]
    /\ UNCHANGED <<config, quiz_agent, now, nreq, request, response, warned,
                   chain, call>>

\* f.write(response.content), the file is closed, return file_path
DownloadWrite(w) ==
    /\ worker[w].pc = "opened"
    /\ downloads' = [downloads EXCEPT ![worker[w].file_path] = worker[w].content]
    /\ worker' = [worker EXCEPT ![w].pc = "done",
                                ![w].returned = worker[w].file_path]
    /\ UNCHANGED <<config, quiz_agent, now, nreq, request, response, warned,
                   chain, call>>

NextDownloads ==
    \E w \in Workers :
        \/ DownloadGet(w)
        \/ DownloadError(w)
        \/ DownloadOpen(w)
        \/ DownloadWrite(w)

SpecDownloads == Init /\ [][NextDownloads]_vars

Next ==
    \/ Startup
    \/ Tick
    \/ \E e \in Emails, s \in Secrets, u \in StartUrls : HandleQuiz(e, s, u)
    \/ \E r \in Runs : ChainStart(r)
    \/ \E r \in Runs : HopBegin(r)
    \/ \E r \in Runs : HopReturn(r)
    \/ \E r \in Runs : HopException(r)
    \/ \E r \in Runs : AgentCalls(r)

Spec == Init /\ [][Next]_vars

\* ================================================================ claims
Handled == 1..nreq

\* C1: whenever a hop's submission response carries a `url` field, and the
\* hop ceiling and the time budget are not exhausted, the chain begins a
\* next hop whose task URL is exactly that field's value.
C1_NextHopFollowsUrl ==
    [][\A r \in Runs :
          (/\ chain[r].pc = "solving"
           /\ chain'[r].result = "success"
           /\ chain[r].has_resp
           /\ chain[r].resp_url # ""
           /\ chain[r].quiz_count < max_quizzes
           /\ now - chain[r].start_time <= quiz_timeout)
          => (/\ chain'[r].pc \in {"body", "solving"}
              /\ chain'[r].current_url = chain[r].resp_url)]_vars

\* C2: a hop begins only at a boundary where now - start_time is at most the
\* budget; at such a boundary (elapsed = budget included) the hop does
\* begin, beyond it the chain ends without a hop; and a hop in flight ends
\* only by its own outcome, never by the budget.
C2_BudgetAtHopBoundary ==
    [][\A r \in Runs :
          /\ Len(chain'[r].hops) > Len(chain[r].hops)
                => now - chain[r].start_time <= quiz_timeout
          /\ (chain[r].pc = "body" /\ chain'[r] # chain[r])
                => IF now - chain[r].start_time <= quiz_timeout
                   THEN /\ chain'[r].pc = "solving"
                        /\ Len(chain'[r].hops) = Len(chain[r].hops) + 1
                   ELSE /\ chain'[r].pc = "done"
                        /\ chain'[r].exit = "timeout"
                        /\ chain'[r].hops = chain[r].hops
          /\ (chain[r].pc = "solving" /\ chain'[r].pc # "solving")
                => chain'[r].exit \in {"break", "failure", "raised"}]_vars

C2_Witness ==
    \E r \in Runs : /\ chain[r].pc = "done"
                    /\ chain[r].exit = "timeout"
                    /\ chain[r].hops = <<>>

\* C3: the hop counter quiz_count is at most 20 in every reachable state.
C3_HopCeiling == \A r \in Runs : chain[r].quiz_count <= 20

C3_Witness ==
    \E r \in Runs : /\ chain[r].pc = "done"
                    /\ chain[r].has_resp
                    /\ chain[r].resp_url # ""
                    /\ chain[r].quiz_count = 1

\* C4: when the submission response of a hop has no `url` field, the chain
\* is over when that hop returns: no further hop is started and no further
\* capability call is made for that run.
C4_NoUrlTerminates ==
    [][\A r \in Runs :
          /\ (/\ chain[r].pc = "solving"
              /\ chain[r].has_resp
              /\ chain[r].resp_url = ""
              /\ chain'[r].result # "none")
                => chain'[r].pc = "done"
          /\ (chain[r].pc = "done" /\ chain[r].has_resp /\ chain[r].resp_url = "")
                => /\ chain'[r].hops = chain[r].hops
                   /\ chain'[r].tool_calls = chain[r].tool_calls
                   /\ chain'[r].pc = "done"]_vars

C4_Witness ==
    \E r \in Runs : /\ chain[r].pc = "done"
                    /\ chain[r].has_resp
                    /\ chain[r].resp_url = ""
                    /\ Len(chain[r].hops) = 1

\* C5: a submission whose serialized payload exceeds 1,000,000 bytes is
\* rejected with an error result and no POST; a payload of at most
\* 1,000,000 bytes (1,000,000 included) is posted.
C5_PayloadLimit ==
    (/\ call.tool = "submit"
     /\ call.input.json = "object"
     /\ call.input.submit_url # "" /\ call.input.email # ""
     /\ call.input.secret # "" /\ call.input.url # "")
    => /\ call.posted <=> PayloadSize(call.input) <= 1000000
       /\ PayloadSize(call.input) > 1000000
             => call.text = "Error" /\ call.failed

C5_Witness ==
    /\ call.tool = "submit"
    /\ PayloadSize(call.input) = 1000000
    /\ call.posted

\* C6: no capability invocation raises into the reasoning loop, whatever
\* its argument; it returns a text, and a failed invocation returns an
\* "Error..." text.
C6_ToolsNeverRaise ==
    /\ ~call.raised
    /\ call.tool # "none" => call.text # "none"
    /\ call.failed => call.text = "Error"

\* C7: when a hop fails, the chain is over: solve_single_quiz is not
\* called again in that run, for the same URL or any other.
C7_FailureEndsChain ==
    [][\A r \in Runs :
          /\ (chain[r].pc = "solving" /\ chain'[r].result = "failure")
                => /\ chain'[r].pc = "done"
                   /\ chain'[r].exit = "failure"
          /\ (chain[r].pc = "done" /\ chain[r].result = "failure")
                => chain'[r].hops = chain[r].hops /\ chain'[r].pc = "done"]_vars

C7_Witness ==
    \E r \in Runs : /\ chain[r].pc = "done"
                    /\ chain[r].result = "failure"
                    /\ Len(chain[r].hops) = 1

\* C8: solve_quiz_chain never raises to its caller, on any exit path.
C8_ChainNeverRaises == \A r \in Runs : chain[r].pc # "raised"

\* C9: a request with the matching secret, received by an initialized
\* agent, is answered with the acknowledgement while its chain has not run
\* a statement yet, and a response once given never changes, whatever the
\* chain does afterwards.
C9_ImmediateAck ==
    [][\A r \in Runs :
          /\ (/\ response[r].status = "none"
              /\ response'[r].status # "none"
              /\ request'[r].secret = EXPECTED_SECRET
              /\ quiz_agent = "ready")
                => /\ response'[r] =
                        [status |-> "accepted",
                         message |-> "Quiz solving process started",
                         started_at |-> now,
                         email |-> request'[r].email]
                   /\ chain'[r].pc = "scheduled"
          /\ response[r].status # "none" => response'[r] = response[r]]_vars

C9_Witness ==
    \E r \in Runs : /\ response[r].status = "accepted"
                    /\ chain[r].pc = "done"
                    /\ chain[r].exit = "failure"

\* C10: a chain exists only for a request whose secret is the expected one,
\* any other secret is answered 403; a request with the expected secret
\* and another email than the configured one is logged and, the agent being
\* initialized, accepted with its chain started.
C10_SecretGatesChain ==
    \A r \in Handled :
        /\ request[r].secret # EXPECTED_SECRET
              => response[r].status = "403" /\ chain[r].pc = "none"
        /\ chain[r].pc # "none" => request[r].secret = EXPECTED_SECRET
        /\ (/\ request[r].secret = EXPECTED_SECRET
            /\ STUDENT_EMAIL # ""
            /\ request[r].email # STUDENT_EMAIL)
              => /\ r \in warned
                 /\ response[r].status \in {"accepted", "500"}
                 /\ response[r].status = "accepted" <=> chain[r].pc # "none"

C10_Witness ==
    \E r \in Handled : /\ r \in warned
                       /\ request[r].email # STUDENT_EMAIL
                       /\ chain[r].pc # "none"

\* C11: a submission answered with a non-2xx status, or with a body that is
\* not valid JSON, yields a failure result, never a submission outcome.
C11_BadResponseIsFailure ==
    (/\ call.tool = "submit"
     /\ call.posted
     /\ (call.input.status \notin 200..299 \/ call.input.env = "bad_json"))
    => /\ call.failed
       /\ call.text = "Error"

\* C12: a POST goes to exactly the submit_url of that call's argument, and
\* a call without a submit_url is rejected with an error and no POST.
C12_DestinationFromArgs ==
    call.tool = "submit"
    => /\ call.posted => (call.dest = call.input.submit_url /\ call.dest # "")
       /\ ~call.posted => call.dest = ""
       /\ (call.input.json = "object" /\ call.input.submit_url = "")
             => (~call.posted /\ call.text = "Error")

C12_Witness ==
    /\ call.tool = "submit"
    /\ call.posted
    /\ call.dest = "sub2"

\* C13: the file a chain run was handed by download_file_tool holds the
\* bytes that run fetched, whatever the other runs download.
C13_DownloadsNotOverwritten ==
    \A w \in Workers :
        (worker[w].pc = "done" /\ worker[w].returned # "Error")
        => downloads[worker[w].returned] = worker[w].content

\* C14: in a chain run at most one hop is in flight, and a hop begins only
\* when no hop is in flight and the hop before it has returned its result.
C14_HopsSequential ==
    [][\A r \in Runs :
          /\ chain'[r].in_flight <= 1
          /\ Len(chain'[r].hops) > Len(chain[r].hops)
                => /\ chain[r].in_flight = 0
                   /\ chain[r].hops # <<>> => chain[r].hop # NoHop]_vars

C14_Witness ==
    \E r \in Runs :
        /\ chain[r].pc = "solving"
        /\ chain[r].in_flight = 1
        /\ Len(chain[r].hops) = 1

\* C15 as stated: at the ceiling the hop result is success = false with
\* the text "incomplete"; on a terminal text it is success = true with it.
C15_CeilingIsIncomplete ==
    \A r \in Runs :
        /\ chain[r].hop.outcome = "ceiling"
              => (~chain[r].hop.success /\ chain[r].hop.text = "incomplete")
        /\ chain[r].hop.outcome = "terminal"
              => (chain[r].hop.success /\ chain[r].hop.text = "output_text")

\* C15 amended: at the ceiling the hop solver does not raise and its result
\* is success = false with, under "error", the text of the ceiling error;
\* on a terminal text it is success = true with that text under "result".
C15_CeilingIsError ==
    \A r \in Runs :
        /\ chain[r].hop.outcome = "ceiling"
              => /\ chain[r].pc # "raised"
                 /\ ~chain[r].hop.success
                 /\ chain[r].hop.key = "error"
                 /\ chain[r].hop.text = ErrorText("ceiling")
        /\ chain[r].hop.outcome = "terminal"
              => /\ chain[r].hop.success
                 /\ chain[r].hop.key = "result"
                 /\ chain[r].hop.text = "output_text"

C15_Witness ==
    \E r \in Runs :
        /\ chain[r].hop.outcome = "ceiling"
        /\ chain[r].pc = "done"
        /\ chain[r].exit = "failure"

\* C16: a chain run invokes solve_single_quiz at most once, whatever the
\* hop returned and whatever url the submission response carried.
C16_AtMostOneHop ==
    \A r \in Runs : Len(chain[r].hops) <= 1

C16_Witness ==
    \E r \in Runs :
        /\ chain[r].pc = "done"
        /\ chain[r].hop.success
        /\ chain[r].resp_url = "u2"
        /\ chain[r].hops = <<"u1">>

\* C17: when the chain has terminated, quiz_count equals the number of
\* solve_single_quiz invocations of the run.
C17_CountEqualsHops ==
    \A r \in Runs :
        chain[r].pc \in {"done", "raised"}
        => chain[r].quiz_count = Len(chain[r].hops)

\* C18: a chain started with an empty start_url invokes no hop and reaches
\* its completion step without an error being raised and logged.
C18_EmptyUrlCompletes ==
    \A r \in Runs :
        (chain[r].pc \in {"done", "raised"} /\ chain[r].start_url = "")
        => /\ chain[r].hops = <<>>
           /\ chain[r].pc = "done"
           /\ ~chain[r].logged_error
====
